---- MODULE Spec2Model ----
(***************************************************************************)
(* Model of src/snowflake_rbac_manager.py: class SnowflakeRBACManager.     *)
(* One run of the Streamlit script constructs the manager (which opens the *)
(* warehouse session) and performs one operation.  The warehouse is the    *)
(* environment: the rows a query returns are drawn from bounded sets.      *)
(***************************************************************************)
EXTENDS Naturals, Sequences, FiniteSets, TLC

(* ---------------------------- bounds ---------------------------------- *)

\* Most grant rows a grants query returns. The second query of a comparison
\* returns the rows of the first again, or at most what the first left of
\* MaxRows.
MaxRows == 2
\* Largest object count the INFORMATION_SCHEMA count query returns.
MaxCount == 2

(* ---------------------------- values ---------------------------------- *)

\* Python's None: a NULL column of a row, a session that was never created.
None == "None"

\* Caller-supplied principal names, the empty string among them.
PrincipalNames == {"", "A", "B"}
PrincipalTypes == {"ROLE", "USER"}
\* Caller-supplied base names for create_functional_roles.
BaseNames == {"", "team", "etl"}

\* A raw grant row as selected by the GRANTS_TO_ROLES / GRANTS_TO_USERS query.
Row(p, t, n, d, s) ==
    [privilege_type |-> p, object_type |-> t, object_name |-> n,
     database_name |-> d, schema_name |-> s]

\* The rows the warehouse may return: schema-level objects of D.S, a
\* database-level grant (NULL schema) and an account-level grant (NULL
\* database and schema).
RawGrantRows ==
    { Row("SELECT", "TABLE", "T1", "D", "S"),
      Row("SELECT", "TABLE", "T2", "D", "S"),
      Row("SELECT", "VIEW", "V1", "D", "S"),
      Row("INSERT", "TABLE", "T1", "D", "S"),
      Row("USAGE", "DATABASE", "D", "D", None),
      Row("USAGE", "WAREHOUSE", "WH", None, None) }

\* Sequences over S of length at most n.
BoundedSeq(S, n) == UNION { [1..k -> S] : k \in 0..n }

\* Values of the grouping columns in ascending (sort) order.
Databases == <<"D">>
Schemas == <<"S">>
PrivilegeTypes == <<"INSERT", "SELECT", "USAGE">>

\* The error a failed warehouse query raises.
QueryFailure == "QueryFailure"
\* The totals the count query may return.
CountResults == 0..MaxCount

(* ------------------------- pure helpers ------------------------------- *)

RECURSIVE Concat(_)
Concat(ss) == IF ss = <<>> THEN <<>> ELSE Head(ss) \o Concat(Tail(ss))

\* The distinct values of seq, in order of first appearance
\* (pandas Series.unique()).
RECURSIVE Unique(_)
Unique(seq) ==
    IF seq = <<>> THEN <<>>
    ELSE LET init == Unique(SubSeq(seq, 1, Len(seq) - 1))
             last == seq[Len(seq)]
         IN  IF \E i \in 1..Len(init) : init[i] = last THEN init
             ELSE Append(init, last)

(* --------------------- consolidate_privileges ------------------------- *)

\* The groupby key of a row: (database_name, schema_name, privilege_type).
GroupKey(r) == <<r.database_name, r.schema_name, r.privilege_type>>

\* Every non-NULL key, in ascending order: groupby sorts its groups.
AllKeys ==
    [i \in 1..(Len(Databases) * Len(Schemas) * Len(PrivilegeTypes)) |->
        << Databases[((i - 1) \div (Len(Schemas) * Len(PrivilegeTypes))) + 1],
           Schemas[(((i - 1) \div Len(PrivilegeTypes)) % Len(Schemas)) + 1],
           PrivilegeTypes[((i - 1) % Len(PrivilegeTypes)) + 1] >>]

\* df.groupby([...]): the keys of the groups in iteration order. groupby
\* drops every row that has a NULL in a key column (dropna=True), so keys
\* with None never appear.
schema_groups(privileges) ==
    SelectSeq(AllKeys,
              LAMBDA k : \E i \in DOMAIN privileges : GroupKey(privileges[i]) = k)

\* The rows of one group, in input order.
group(privileges, k) == SelectSeq(privileges, LAMBDA r : GroupKey(r) = k)

\* group['object_type'].unique()
object_types(privileges, k) ==
    LET g == group(privileges, k)
    IN  Unique([i \in DOMAIN g |-> g[i].object_type])

\* The (db, schema, priv, obj_type) partitions in the order the nested loops
\* of consolidate_privileges visit them.
Partitions(privileges) ==
    LET keys == schema_groups(privileges)
        OfGroup(k) ==
            LET types == object_types(privileges, k)
            IN  [j \in DOMAIN types |-> << k[1], k[2], k[3], types[j] >>]
    IN  Concat([i \in DOMAIN keys |-> OfGroup(keys[i])])

\* group[group['object_type'] == obj_type]['object_name'].tolist():
\* a list, one entry per row, repeated names kept.
type_objects(privileges, part) ==
    LET rows == SelectSeq(group(privileges, << part[1], part[2], part[3] >>),
                          LAMBDA r : r.object_type = part[4])
    IN  [i \in DOMAIN rows |-> rows[i].object_name]

SchemaRecord(part) ==
    [privilege |-> part[3], granted_on |-> "ALL " \o part[4] \o "S",
     object_name |-> part[1] \o "." \o part[2], scope |-> "SCHEMA"]

ObjectRecord(part, obj) ==
    [privilege |-> part[3], granted_on |-> part[4],
     object_name |-> obj, scope |-> "OBJECT"]

\* Variant of Emit with the else branch not taken exclusively: the collapsed
\* record is followed by the per-object records.
Emit_both(part, objs, total_count) ==
    (IF Len(objs) = total_count THEN << SchemaRecord(part) >> ELSE <<>>)
    \o [i \in DOMAIN objs |-> ObjectRecord(part, objs[i])]

\* The records one pass of the inner loop appends to consolidated.
Emit(part, objs, total_count) ==
    IF Len(objs) = total_count
    THEN << SchemaRecord(part) >>
    ELSE [i \in DOMAIN objs |-> ObjectRecord(part, objs[i])]

(* ----------------------- compare_privileges --------------------------- *)

\* {(p['privilege'], p['granted_on'], p['object_name'], p.get('scope', 'OBJECT'))}
priv_set(privs) ==
    { << privs[i].privilege, privs[i].granted_on, privs[i].object_name,
         privs[i].scope >> : i \in DOMAIN privs }

unique_to_first(privileges1, privileges2) ==
    priv_set(privileges1) \ priv_set(privileges2)

\* Variant of unique_to_second without the subtraction.
unique_to_second_all(privileges1, privileges2) == priv_set(privileges2)

unique_to_second(privileges1, privileges2) ==
    priv_set(privileges2) \ priv_set(privileges1)

\* Variant of common with '-' written for '&'.
common_minus(privileges1, privileges2) ==
    priv_set(privileges1) \ priv_set(privileges2)

common(privileges1, privileges2) ==
    priv_set(privileges1) \cap priv_set(privileges2)

Comparison(privileges1, privileges2) ==
    [unique_to_first |-> unique_to_first(privileges1, privileges2),
     unique_to_second |-> unique_to_second(privileges1, privileges2),
     common |-> common(privileges1, privileges2)]

(* --------------------- create_functional_roles ------------------------ *)

Role(name) == [kind |-> "Role", name |-> name]

Warehouse(name) ==
    [kind |-> "Warehouse", name |-> name,
     warehouse_size |-> "x-small", auto_suspend |-> 60]

Grant(to, on) == [kind |-> "Grant", priv |-> "usage", to |-> to, on |-> on]

\* Variant of Blueprint with every grant made to roles[0].
Blueprint_first_role(base_role_name) ==
    LET roles == << Role(base_role_name \o "_full"),
                    Role(base_role_name \o "_read"),
                    Role(base_role_name \o "_write") >>
        warehouse == Warehouse(base_role_name \o "_wh")
        grants == << Grant(roles[1], warehouse),
                     Grant(roles[1], warehouse),
                     Grant(roles[1], warehouse) >>
    IN  roles \o << warehouse >> \o grants

\* Blueprint(resources=[*roles, warehouse, *grants])
Blueprint(base_role_name) ==
    LET roles == << Role(base_role_name \o "_full"),
                    Role(base_role_name \o "_read"),
                    Role(base_role_name \o "_write") >>
        warehouse == Warehouse(base_role_name \o "_wh")
        grants == << Grant(roles[1], warehouse),
                     Grant(roles[2], warehouse),
                     Grant(roles[3], warehouse) >>
    IN  roles \o << warehouse >> \o grants

(* ------------------------------ state --------------------------------- *)

VARIABLES
    pc,            \* position of the script run: start, ready, fetch, count, done
    session,       \* self.session: "unset", "Session" or None
    st_error,      \* the constructor displayed "Failed to connect to Snowflake"
    op,            \* the operation in progress and its arguments
    call,          \* which fetch/consolidate call of the operation is active
    privileges,    \* consolidate_privileges: its argument (the DataFrame rows)
    todo,          \* consolidate_privileges: partitions the loops have yet to visit
    consolidated,  \* consolidate_privileges: the list under construction
    returned,      \* the lists the finished consolidate_privileges calls returned
    result,        \* what the operation returned or raised
    queries,       \* log: the queries issued to the session, and which raised
    fetched,       \* log: the rows each grants query returned
    totals,        \* warehouse: per partition, the total its count query showed
    history        \* log: per visited partition, the count and the records emitted

vars == << pc, session, st_error, op, call, privileges, todo, consolidated,
           returned, result, queries, fetched, totals, history >>

NoOp == [name |-> "none"]
NoResult == [status |-> "none"]
Ok(v) == [status |-> "ok", value |-> v]
Raised(e) == [status |-> "error", error |-> e]

Init ==
    /\ pc = "start"
    /\ session = "unset"
    /\ st_error = FALSE
    /\ op = NoOp
    /\ call = 0
    /\ privileges = <<>>
    /\ todo = <<>>
    /\ consolidated = <<>>
    /\ returned = <<>>
    /\ result = NoResult
    /\ queries = <<>>
    /\ fetched = <<>>
    /\ totals = {}
    /\ history = <<>>

(* ----------------------------- actions -------------------------------- *)

\* What Session.builder...create() does: succeed or raise.
\* _get_snowflake_connection catches the exception, shows it with st.error
\* and returns None, which __init__ stores as self.session.
_get_snowflake_connection(connected) ==
    [session |-> IF connected THEN "Session" ELSE None,
     st_error |-> ~connected]

\* __init__
Construct ==
    /\ pc = "start"
    /\ \E connected \in BOOLEAN :
         LET r == _get_snowflake_connection(connected)
         IN  /\ session' = r.session
             /\ st_error' = r.st_error
    /\ pc' = "ready"
    /\ UNCHANGED << op, call, privileges, todo, consolidated, returned, result,
                    queries, fetched, totals, history >>

\* get_role_privileges(role_name): entered; its query is built from role_name
\* without any check of it.
get_role_privileges ==
    /\ pc = "ready"
    /\ \E role_name \in PrincipalNames :
         op' = [name |-> "get_role_privileges", principal1 |-> role_name,
                principal2 |-> role_name, principal_type |-> "ROLE"]
    /\ call' = 1
    /\ pc' = "fetch"
    /\ UNCHANGED << session, st_error, privileges, todo, consolidated, returned,
                    result, queries, fetched, totals, history >>

\* compare_privileges(principal1, principal2, principal_type): entered.
compare_privileges ==
    /\ pc = "ready"
    /\ \E principal1 \in PrincipalNames, principal2 \in PrincipalNames,
          principal_type \in PrincipalTypes :
         op' = [name |-> "compare_privileges", principal1 |-> principal1,
                principal2 |-> principal2, principal_type |-> principal_type]
    /\ call' = 1
    /\ pc' = "fetch"
    /\ UNCHANGED << session, st_error, privileges, todo, consolidated, returned,
                    result, queries, fetched, totals, history >>

\* create_functional_roles(base_role_name): builds the blueprint; it never
\* touches self.session and checks nothing about base_role_name.
create_functional_roles ==
    /\ pc = "ready"
    /\ \E base_role_name \in BaseNames :
         /\ op' = [name |-> "create_functional_roles",
                   base_role_name |-> base_role_name]
         /\ result' = Ok(Blueprint(base_role_name))
    /\ pc' = "done"
    /\ UNCHANGED << session, st_error, call, privileges, todo, consolidated,
                    returned, queries, fetched, totals, history >>

\* The grants query of the active call: GRANTS_TO_ROLES for a role,
\* GRANTS_TO_USERS for a user, filtered on the principal's name.
GrantsQuery(raised) ==
    [kind |-> "GRANTS", raised |-> raised,
     view |-> IF op.principal_type = "ROLE" THEN "GRANTS_TO_ROLES"
              ELSE "GRANTS_TO_USERS",
     grantee |-> IF call = 1 THEN op.principal1 ELSE op.principal2]

\* self.session.sql(...) with self.session = None: AttributeError, raised
\* before any query reaches the warehouse.
SessionMissing ==
    /\ pc = "fetch"
    /\ session = None
    /\ result' = Raised("AttributeError")
    /\ pc' = "done"
    /\ UNCHANGED << session, st_error, op, call, privileges, todo, consolidated,
                    returned, queries, fetched, totals, history >>

\* The grants query raises: nothing catches it inside the class.
FetchFails ==
    /\ pc = "fetch"
    /\ session = "Session"
    /\ queries' = Append(queries, GrantsQuery(TRUE))
    /\ result' = Raised(QueryFailure)
    /\ pc' = "done"
    /\ UNCHANGED << session, st_error, op, call, privileges, todo, consolidated,
                    returned, fetched, totals, history >>

\* The grants query returns rows and consolidate_privileges(rows) starts:
\* pd.DataFrame([]) has no columns, so groupby raises KeyError on an empty
\* list; otherwise the groups are formed and the loops begin.
\* Between the two fetches of compare_privileges the warehouse either stays
\* as it was (the same rows again, every partition's count query answering
\* as before) or has changed (other rows, other totals).
FetchGrants ==
    /\ pc = "fetch"
    /\ session = "Session"
    /\ queries' = Append(queries, GrantsQuery(FALSE))
    /\ \E unchanged \in {u \in BOOLEAN : u => call = 2} :
       \E rows \in IF unchanged THEN {fetched[1]}
                   ELSE BoundedSeq(RawGrantRows,
                                   MaxRows - Len(Concat(fetched))) :
         /\ fetched' = Append(fetched, rows)
         /\ totals' = IF unchanged THEN totals ELSE {}
         /\ privileges' = rows
         /\ IF rows = <<>>
            THEN /\ result' = Raised("KeyError")
                 /\ pc' = "done"
                 /\ todo' = <<>>
            ELSE /\ result' = result
                 /\ pc' = "count"
                 /\ todo' = Partitions(rows)
    /\ consolidated' = <<>>
    /\ UNCHANGED << session, st_error, op, call, returned, history >>

CountQuery(part, raised) ==
    [kind |-> "COUNT", raised |-> raised, database |-> part[1],
     schema |-> part[2], object_type |-> part[4]]

\* Variant of CountFails that catches the error and goes on with a total of 0.
CountFails_default ==
    /\ pc = "count"
    /\ todo # <<>>
    /\ LET part == Head(todo)
           objs == type_objects(privileges, part)
       IN  /\ queries' = Append(queries, CountQuery(part, TRUE))
           /\ consolidated' = consolidated \o Emit(part, objs, 0)
           /\ history' = Append(history,
                [call |-> call, part |-> part, objs |-> objs,
                 total_count |-> 0, emitted |-> Emit(part, objs, 0)])
    /\ todo' = Tail(todo)
    /\ UNCHANGED << pc, session, st_error, op, call, privileges, returned,
                    result, fetched, totals >>

\* The count query of a partition raises. Nothing inside the class catches
\* it: consolidate_privileges and the operation end with the error, and the
\* list built so far is a local that is never returned.
CountFails ==
    /\ pc = "count"
    /\ todo # <<>>
    /\ queries' = Append(queries, CountQuery(Head(todo), TRUE))
    /\ result' = Raised(QueryFailure)
    /\ pc' = "done"
    /\ UNCHANGED << session, st_error, op, call, privileges, todo, consolidated,
                    returned, fetched, totals, history >>

\* One pass of the inner loop: the count query, then the append(s).
\* Over an unchanged warehouse the partition's query answers as it did.
CountStep ==
    /\ pc = "count"
    /\ todo # <<>>
    /\ LET part == Head(todo)
           objs == type_objects(privileges, part)
       IN  /\ queries' = Append(queries, CountQuery(part, FALSE))
           /\ \E total_count \in CountResults :
                /\ \A e \in totals : e[1] = part => e[2] = total_count
                /\ totals' = totals \cup { << part, total_count >> }
                /\ consolidated' = consolidated \o Emit(part, objs, total_count)
                /\ history' = Append(history,
                     [call |-> call, part |-> part, objs |-> objs,
                      total_count |-> total_count,
                      emitted |-> Emit(part, objs, total_count)])
    /\ todo' = Tail(todo)
    /\ UNCHANGED << pc, session, st_error, op, call, privileges, returned,
                    result, fetched >>

\* return consolidated, and what the caller does with it.
ConsolidateReturn ==
    /\ pc = "count"
    /\ todo = <<>>
    /\ returned' = Append(returned, consolidated)
    /\ IF op.name = "get_role_privileges"
       THEN /\ result' = Ok(consolidated)
            /\ pc' = "done"
            /\ call' = call
       ELSE IF call = 1
            THEN /\ call' = 2
                 /\ pc' = "fetch"
                 /\ result' = result
            ELSE /\ result' = Ok(Comparison(returned[1], consolidated))
                 /\ pc' = "done"
                 /\ call' = call
    /\ UNCHANGED << session, st_error, op, privileges, todo, consolidated,
                    queries, fetched, totals, history >>

\* Streamlit runs the script again: a new manager, a new operation.
Rerun ==
    /\ pc = "done"
    /\ pc' = "start"
    /\ session' = "unset"
    /\ st_error' = FALSE
    /\ op' = NoOp
    /\ call' = 0
    /\ privileges' = <<>>
    /\ todo' = <<>>
    /\ consolidated' = <<>>
    /\ returned' = <<>>
    /\ result' = NoResult
    /\ queries' = <<>>
    /\ fetched' = <<>>
    /\ totals' = {}
    /\ history' = <<>>

Next ==
    \/ Construct
    \/ get_role_privileges
    \/ compare_privileges
    \/ create_functional_roles
    \/ SessionMissing
    \/ FetchFails
    \/ FetchGrants
    \/ CountFails
    \/ CountStep
    \/ ConsolidateReturn
    \/ Rerun

Spec == Init /\ [][Next]_vars

(* ------------------------ properties: helpers ------------------------- *)

Range(seq) == { seq[i] : i \in DOMAIN seq }

\* The history entries of consolidate_privileges call c, and what they emitted.
EntriesOf(c) == SelectSeq(history, LAMBDA h : h.call = c)
EmittedBy(c) ==
    LET entries == EntriesOf(c)
    IN  Concat([i \in DOMAIN entries |-> entries[i].emitted])

HasScope(recs, scope) == \E r \in Range(recs) : r.scope = scope

\* The tuple set of a consolidated list.
TupleSet(recs) ==
    { << r.privilege, r.granted_on, r.object_name, r.scope >> : r \in Range(recs) }

IsFetchOp == op.name \in {"get_role_privileges", "compare_privileges"}

(* ------------------------------ C1 ------------------------------------ *)

\* C1: the output of consolidate_privileges never holds, for one (database,
\* schema, object_type, privilege) partition, both a scope=SCHEMA record and
\* a scope=OBJECT record: each visited partition emitted either exactly one
\* collapsed record or only per-object records, and the list returned (or
\* under construction) is exactly what the partitions emitted.
C1_MutualExclusion ==
    /\ \A c \in DOMAIN returned : returned[c] = EmittedBy(c)
    /\ pc = "count" => consolidated = EmittedBy(call)
    /\ \A i \in DOMAIN history :
         \/ /\ Len(history[i].emitted) = 1
            /\ history[i].emitted[1].scope = "SCHEMA"
         \/ /\ history[i].emitted # <<>>
            /\ \A r \in Range(history[i].emitted) :
                 /\ r.scope = "OBJECT"
                 /\ r.granted_on = history[i].part[4]
                 /\ r.privilege = history[i].part[3]
    /\ \A i, j \in DOMAIN history :
         (history[i].call = history[j].call /\ history[i].part = history[j].part)
            => ~ (HasScope(history[i].emitted, "SCHEMA")
                  /\ HasScope(history[j].emitted, "OBJECT"))
    \* on the output itself: every grouped row of RawGrantRows lies in D.S
    /\ \A c \in DOMAIN returned :
         \A r, q \in Range(returned[c]) :
            ~ ( /\ r.scope = "SCHEMA"
                /\ q.scope = "OBJECT"
                /\ r.privilege = q.privilege
                /\ r.granted_on = "ALL " \o q.granted_on \o "S" )

\* A call has returned a list holding a collapsed record of one partition and
\* per-object records of another.
C1_Witness ==
    /\ pc = "done"
    /\ result.status = "ok"
    /\ op.name = "get_role_privileges"
    /\ HasScope(returned[1], "SCHEMA")
    /\ HasScope(returned[1], "OBJECT")

(* ------------------------------ C2 ------------------------------------ *)

\* C2: a partition is collapsed into one scope=SCHEMA record if and only if
\* the number of DISTINCT granted object names equals total_count and
\* total_count > 0; otherwise one scope=OBJECT record per granted name is
\* emitted with the original object_type and privilege.
C2_CollapseIffDistinctNames ==
    \A i \in DOMAIN history :
        LET h == history[i]
            grantedNames == Range(h.objs)
        IN  IF Cardinality(grantedNames) = h.total_count /\ h.total_count > 0
            THEN h.emitted = << SchemaRecord(h.part) >>
            ELSE /\ Len(h.emitted) = Cardinality(grantedNames)
                 /\ { r.object_name : r \in Range(h.emitted) } = grantedNames
                 /\ \A r \in Range(h.emitted) :
                      /\ r.scope = "OBJECT"
                      /\ r.granted_on = h.part[4]
                      /\ r.privilege = h.part[3]

(* ------------------------------ C4 ------------------------------------ *)

\* C4: an empty sequence of raw grant rows makes consolidate_privileges return
\* an empty list: no error is raised and no count query is issued.
C4_EmptyInputEmptyOutput ==
    \A c \in DOMAIN fetched :
        fetched[c] = <<>> =>
            /\ result.status # "error"
            /\ c \in DOMAIN returned
            /\ returned[c] = <<>>
            /\ EntriesOf(c) = <<>>

(* ------------------------------ C5 ------------------------------------ *)

\* A consolidated record that stands for a raw row: its own per-object record
\* or the collapsed record of its partition.
Represents(rec, row) ==
    /\ rec.privilege = row.privilege_type
    /\ \/ /\ rec.scope = "OBJECT"
          /\ rec.granted_on = row.object_type
          /\ rec.object_name = row.object_name
       \/ /\ rec.scope = "SCHEMA"
          /\ rec.granted_on = "ALL " \o row.object_type \o "S"

\* C5: a raw row whose database_name or schema_name is NULL forms a group of
\* its own and is represented in the list consolidate_privileges returns.
C5_NullKeyRowsKept ==
    \A c \in DOMAIN returned :
        \A i \in DOMAIN fetched[c] :
            LET row == fetched[c][i]
            IN  (row.database_name = None \/ row.schema_name = None)
                    => \E rec \in Range(returned[c]) : Represents(rec, row)

(* ------------------------------ C3 ------------------------------------ *)

CompareReturned ==
    /\ pc = "done"
    /\ op.name = "compare_privileges"
    /\ result.status = "ok"

\* C3: in every result of compare_privileges, unique_to_first,
\* unique_to_second and common are pairwise disjoint, unique_to_first \cup
\* common is the tuple set A of the first consolidated list and
\* unique_to_second \cup common the tuple set B of the second; a record that
\* occurs twice in a list counts once.
C3_ThreeWayPartition ==
    CompareReturned =>
        LET A == TupleSet(returned[1])
            B == TupleSet(returned[2])
            r == result.value
        IN  /\ r.unique_to_first \cap r.unique_to_second = {}
            /\ r.unique_to_first \cap r.common = {}
            /\ r.unique_to_second \cap r.common = {}
            /\ r.unique_to_first \cup r.common = A
            /\ r.unique_to_second \cup r.common = B

\* A comparison has returned with a common tuple, the first list holding the
\* same record twice.
C3_Witness ==
    /\ CompareReturned
    /\ result.value.common # {}
    /\ Len(returned[1]) > Cardinality(TupleSet(returned[1]))

(* ------------------------------ C6 ------------------------------------ *)

RaisedCountQueries ==
    { i \in DOMAIN queries : queries[i].kind = "COUNT" /\ queries[i].raised }

\* C6: once the count query of a partition has raised, the operation has
\* ended with that error: it is the last query issued (no retry, no further
\* partition), the active consolidate_privileges call has returned no list,
\* and no total stands in for the one that could not be read.
C6_CountFailureIsFatal ==
    RaisedCountQueries # {} =>
        /\ pc = "done"
        /\ result = Raised(QueryFailure)
        /\ RaisedCountQueries = { Len(queries) }
        /\ Len(returned) = call - 1
        /\ todo # <<>>
        /\ ~ \E i \in DOMAIN history :
               history[i].call = call /\ history[i].part = Head(todo)

\* A count query raised after an earlier partition had emitted its records.
C6_Witness ==
    /\ RaisedCountQueries # {}
    /\ consolidated # <<>>
    /\ result = Raised(QueryFailure)

(* ------------------------------ C7 ------------------------------------ *)

EmptyNameGiven ==
    \/ IsFetchOp /\ (op.principal1 = "" \/ op.principal2 = "")
    \/ op.name = "create_functional_roles" /\ op.base_role_name = ""

\* C7: an empty principal name or base name is rejected with a validation
\* failure before any query is issued and before any resource is produced.
C7_EmptyNameRejected ==
    EmptyNameGiven =>
        /\ queries = <<>>
        /\ result.status # "ok"
        /\ pc = "done" => result = Raised("ValidationFailure")

(* ------------------------------ C8 ------------------------------------ *)

\* C8: when the connection could not be established, an operation that needs
\* the session ends with a connection failure.
C8_ConnectionFailureSurfaced ==
    (session = None /\ IsFetchOp /\ pc = "done")
        => result = Raised("ConnectionFailure")

(* ------------------------------ C9 ------------------------------------ *)

\* The warehouse was the same for both fetches: the same grant rows, and the
\* count query of a partition returned the same total both times.
WarehouseUnchanged ==
    /\ fetched[1] = fetched[2]
    /\ \A i, j \in DOMAIN history :
         history[i].part = history[j].part
            => history[i].total_count = history[j].total_count

\* C9: comparing a principal with itself, the warehouse unchanged between the
\* two fetches, yields empty unique_to_first and unique_to_second and common
\* equal to the tuple set of the principal's consolidated grants.
C9_SelfComparison ==
    (CompareReturned /\ op.principal1 = op.principal2 /\ WarehouseUnchanged)
        => /\ result.value.unique_to_first = {}
           /\ result.value.unique_to_second = {}
           /\ result.value.common = TupleSet(returned[1])

\* A self-comparison over an unchanged warehouse has returned, the principal
\* holding a collapsed and a per-object grant.
C9_Witness ==
    /\ CompareReturned
    /\ op.principal1 = op.principal2
    /\ WarehouseUnchanged
    /\ HasScope(returned[1], "SCHEMA")
    /\ HasScope(returned[1], "OBJECT")

(* ------------------------------ C10 ----------------------------------- *)

BuildReturned ==
    /\ pc = "done"
    /\ op.name = "create_functional_roles"
    /\ op.base_role_name # ""

\* C10: for a non-empty base name b, create_functional_roles returns exactly
\* seven resources: the roles b_full, b_read, b_write, the warehouse b_wh of
\* size "x-small" and auto-suspend 60, and three usage grants on that
\* warehouse, one to each role. No query is issued, with or without a session.
C10_FunctionalRoleBundle ==
    BuildReturned =>
        LET b == op.base_role_name
            res == result.value
            Of(kind) == { i \in DOMAIN res : res[i].kind = kind }
            roleNames == { b \o "_full", b \o "_read", b \o "_write" }
        IN  /\ result.status = "ok"
            /\ Len(res) = 7
            /\ Cardinality(Of("Role")) = 3
            /\ { res[i].name : i \in Of("Role") } = roleNames
            /\ Cardinality(Of("Warehouse")) = 1
            /\ \A i \in Of("Warehouse") :
                 /\ res[i].name = b \o "_wh"
                 /\ res[i].warehouse_size = "x-small"
                 /\ res[i].auto_suspend = 60
            /\ Cardinality(Of("Grant")) = 3
            /\ \A i \in Of("Grant") :
                 /\ res[i].priv = "usage"
                 /\ res[i].on.kind = "Warehouse"
                 /\ res[i].on.name = b \o "_wh"
                 /\ res[i].to.kind = "Role"
            /\ \A n \in roleNames :
                 Cardinality({ i \in Of("Grant") : res[i].to.name = n }) = 1
            /\ b = "team" =>
                 /\ { res[i].name : i \in Of("Role") }
                      = { "team_full", "team_read", "team_write" }
                 /\ { res[i].name : i \in Of("Warehouse") } = { "team_wh" }
            /\ queries = <<>>

\* The bundle for "team" was built by a manager that has no session.
C10_Witness ==
    /\ BuildReturned
    /\ op.base_role_name = "team"
    /\ result.status = "ok"
    /\ session = None

====
